---- MODULE Spec2Model ----
(***************************************************************************)
(* Booking wizard of plus-vans: BookingForm (three steps and the draft),   *)
(* StepOne / StepTwo / StepThree forms, the postcode lookup of StepTwo,    *)
(* the card payment and the submission transport.                          *)
(*                                                                         *)
(* Text values are TLA+ strings; Len, SubSeq and \o work on them under     *)
(* TLC.  Two characters of the source are not ASCII and are written with   *)
(* an ASCII stand-in: the pound sign as "GBP" and the en dash as "-".      *)
(* A JavaScript `undefined` text value is the string Undefined; a key that *)
(* an object does not hold is a key outside the DOMAIN of the function     *)
(* that models the object.                                                 *)
(***************************************************************************)
EXTENDS Integers, Sequences, FiniteSets, TLC

VARIABLES
    currentStep,    \* BookingForm: useState(1)
    isSubmitted,    \* BookingForm: useState(false)
    formData,       \* BookingForm: the draft
    form1,          \* StepOne: values of the mounted form
    form2,          \* StepTwo: values of the mounted form
    pcStatus,       \* StepTwo: useState(null)
    debounce,       \* StepTwo: debounceRef, the pending timer
    lookups,        \* StepTwo: lookups whose network calls are outstanding
    form3,          \* StepThree: values of the mounted form
    submitting,     \* StepThree: useState(false)
    subs,           \* StepThree.handleSubmit calls that are running
    attempts,       \* number of StepThree.handleSubmit calls started
    charges,        \* payment intents the processor confirmed as succeeded
    lastPrimary,    \* the backend's answer to the most recent primary POST
    notice,         \* the most recent toast / alert shown to the user
    left,           \* the form values that were on screen at the last Back
    applied,        \* whether the most recent lookup result that was applied belonged to
                    \* the postcode the field held by then: "none", "current", "superseded"
    lastFallback,   \* what became of the most recent no-cors fallback request
    ended,          \* the lookup that ended since the last timer callback or blur: what
                    \* the provider answered to its find-calls, its get-calls, its status
    window,         \* the postcode changes since the timer was last idle, and the timer
                    \* callbacks run since the last postcode change
    passed          \* the data handleNext was called with to render the current step

vars == <<currentStep, isSubmitted, formData, form1, form2, pcStatus, debounce,
          lookups, form3, submitting, subs, attempts, charges, lastPrimary,
          notice, left, applied, lastFallback, ended, window, passed>>

-----------------------------------------------------------------------------
(* Bounds of the model. *)

\* handleSubmit calls of StepThree one session explores
MaxAttempts == 2
\* lookups of StepTwo whose network calls are outstanding at the same time
MaxInFlight == 1
\* postcode changes counted in one debounce window (the count saturates here)
MaxEdits == 2

-----------------------------------------------------------------------------
(* JavaScript values *)

Undefined == "<undefined>"
NoDate == <<>>

\* a ?? b
Coalesce(a, b) == IF a = Undefined THEN b ELSE a
\* a || b on text
OrElse(a, b) == IF a = Undefined \/ a = "" THEN b ELSE a
\* obj.k
Get(obj, k) == IF k \in DOMAIN obj THEN obj[k] ELSE Undefined
\* { ...prev, ...data }
Spread(prev, data) ==
    [k \in (DOMAIN prev) \cup (DOMAIN data) |->
        IF k \in DOMAIN data THEN data[k] ELSE prev[k]]

Digits == {"0", "1", "2", "3", "4", "5", "6", "7", "8", "9"}
LowerCase == "abcdefghijklmnopqrstuvwxyz"
UpperCase == "ABCDEFGHIJKLMNOPQRSTUVWXYZ"
Char(s, i) == SubSeq(s, i, i)
LowerLetters == {Char(LowerCase, i) : i \in 1..26}
UpperLetters == {Char(UpperCase, i) : i \in 1..26}
UpperOf == [c \in LowerLetters |-> Char(UpperCase, CHOOSE i \in 1..26 : Char(LowerCase, i) = c)]
LowerOf == [c \in UpperLetters |-> Char(LowerCase, CHOOSE i \in 1..26 : Char(UpperCase, i) = c)]
IsDigit(c) == c \in Digits
IsLetter(c) == c \in LowerLetters \/ c \in UpperLetters
IsSpace(c) == c = " "

ToUpperChar(c) == IF c \in LowerLetters THEN UpperOf[c] ELSE c
ToLowerChar(c) == IF c \in UpperLetters THEN LowerOf[c] ELSE c

RECURSIVE ToUpper(_)
ToUpper(s) == IF s = "" THEN "" ELSE ToUpperChar(Char(s, 1)) \o ToUpper(SubSeq(s, 2, Len(s)))
RECURSIVE ToLower(_)
ToLower(s) == IF s = "" THEN "" ELSE ToLowerChar(Char(s, 1)) \o ToLower(SubSeq(s, 2, Len(s)))
\* s.replace(/\s+/g, "")
RECURSIVE StripSpaces(_)
StripSpaces(s) ==
    IF s = "" THEN ""
    ELSE (IF IsSpace(Char(s, 1)) THEN "" ELSE Char(s, 1)) \o StripSpaces(SubSeq(s, 2, Len(s)))
\* s.replace(/\D/g, "")
RECURSIVE OnlyDigits(_)
OnlyDigits(s) ==
    IF s = "" THEN ""
    ELSE (IF IsDigit(Char(s, 1)) THEN Char(s, 1) ELSE "") \o OnlyDigits(SubSeq(s, 2, Len(s)))
RECURSIVE TrimLeft(_)
TrimLeft(s) == IF s # "" /\ IsSpace(Char(s, 1)) THEN TrimLeft(SubSeq(s, 2, Len(s))) ELSE s
RECURSIVE TrimRight(_)
TrimRight(s) ==
    IF s # "" /\ IsSpace(Char(s, Len(s))) THEN TrimRight(SubSeq(s, 1, Len(s) - 1)) ELSE s
Trim(s) == TrimRight(TrimLeft(s))
StartsWith(s, p) == Len(p) <= Len(s) /\ SubSeq(s, 1, Len(p)) = p
Includes(s, t) == \E i \in 1..(Len(s) - Len(t) + 1) : SubSeq(s, i, i + Len(t) - 1) = t
AllDigits(s) == \A i \in 1..Len(s) : IsDigit(Char(s, i))
\* the text after the first "@", or "" (v.split("@")[1] || "")
AfterAt(s) ==
    IF \E i \in 1..Len(s) : Char(s, i) = "@"
    THEN LET i == CHOOSE j \in 1..Len(s) : Char(s, j) = "@" /\ \A h \in 1..(j - 1) : Char(s, h) # "@"
             rest == SubSeq(s, i + 1, Len(s))
         IN  IF \E j \in 1..Len(rest) : Char(rest, j) = "@"
             THEN SubSeq(rest, 1, (CHOOSE j \in 1..Len(rest) :
                                      Char(rest, j) = "@" /\ \A h \in 1..(j - 1) : Char(rest, h) # "@") - 1)
             ELSE rest
    ELSE ""

-----------------------------------------------------------------------------
(* BookingForm.tsx: tables and pure helpers *)

Pad2(n) == IF n < 10 THEN "0" \o ToString(n) ELSE ToString(n)
\* a Date is <<year, month, day>> in local components, or NoDate
toYMD(d) == IF d = NoDate THEN "" ELSE ToString(d[1]) \o "-" \o Pad2(d[2]) \o "-" \o Pad2(d[3])

\* a label table in which two keys share one label
SlotLabelsShared ==
    [k \in {"ANY", "6_9_AM", "9_12_AM", "12_3_PM", "3_6_PM", "6_9_PM", "AFTER_9PM"} |->
        CASE k = "ANY" -> "Any time"
          [] k \in {"6_9_AM", "3_6_PM"} -> "6-9am + GBP29.00"
          [] k = "9_12_AM" -> "9-12am"
          [] k = "12_3_PM" -> "12-3pm"
          [] k = "6_9_PM" -> "6-9pm + GBP39.00"
          [] k = "AFTER_9PM" -> "After 9pm minimum charge GBP179.00"]
SLOT_LABEL_BY_KEY ==
    [k \in {"ANY", "6_9_AM", "9_12_AM", "12_3_PM", "3_6_PM", "6_9_PM", "AFTER_9PM"} |->
        CASE k = "ANY" -> "Any time"
          [] k = "6_9_AM" -> "6-9am + GBP29.00"
          [] k = "9_12_AM" -> "9-12am"
          [] k = "12_3_PM" -> "12-3pm"
          [] k = "3_6_PM" -> "3-6pm + GBP29.00"
          [] k = "6_9_PM" -> "6-9pm + GBP39.00"
          [] k = "AFTER_9PM" -> "After 9pm minimum charge GBP179.00"]

totalSteps == 3

InitialFormData ==
    [contactName |-> "", companyName |-> "", phoneNumber |-> "", email |-> "",
     collectionDate |-> NoDate, collectionTime |-> "", collectionTimeSlot |-> "",
     postcode |-> "", addressLine1 |-> "", addressLine2 |-> "", town |-> "", county |-> "",
     sameContact |-> TRUE, collectionContactName |-> "", collectionPhoneNumber |-> "",
     notificationMethods |-> <<>>, wasteTypes |-> <<>>, wasteTypesSelected |-> <<>>,
     jobDescription |-> "", specialInstructions |-> "", urgentJob |-> FALSE]

\* Object.entries(SLOT_LABEL_BY_KEY).find(([, lbl]) => lbl === label)?.[0]
SlotOrder == <<"ANY", "6_9_AM", "9_12_AM", "12_3_PM", "3_6_PM", "6_9_PM", "AFTER_9PM">>
KeyOfLabel(label) ==
    IF \E i \in 1..Len(SlotOrder) : SLOT_LABEL_BY_KEY[SlotOrder[i]] = label
    THEN SlotOrder[CHOOSE i \in 1..Len(SlotOrder) :
            /\ SLOT_LABEL_BY_KEY[SlotOrder[i]] = label
            /\ \A j \in 1..(i - 1) : SLOT_LABEL_BY_KEY[SlotOrder[j]] # label]
    ELSE Undefined

\* the object handleNext stores with setFormData
MergeNext(prev, data) ==
    LET dTime == Get(data, "collectionTime")
        dSlot == Get(data, "collectionTimeSlot")
        label ==
            IF dTime # Undefined THEN dTime
            ELSE IF dSlot # Undefined /\ dSlot # ""
                 THEN (IF dSlot \in DOMAIN SLOT_LABEL_BY_KEY
                       THEN SLOT_LABEL_BY_KEY[dSlot] ELSE prev.collectionTime)
                 ELSE prev.collectionTime
        key ==
            IF dSlot # Undefined THEN dSlot
            ELSE IF dTime # Undefined /\ dTime # "" /\ prev.collectionTimeSlot \in {"", Undefined}
                 THEN Coalesce(KeyOfLabel(dTime), prev.collectionTimeSlot)
                 ELSE prev.collectionTimeSlot
    IN  [Spread(prev, data) EXCEPT !["collectionTime"] = label, !["collectionTimeSlot"] = key]

\* a handleNext that moves two steps ahead
StepSkipsAhead(s) == IF s < totalSteps THEN s + 2 ELSE s
\* if (currentStep < totalSteps) setCurrentStep((s) => s + 1)
StepAfterNext(s) == IF s < totalSteps THEN s + 1 ELSE s
\* if (currentStep > 1) setCurrentStep((s) => s - 1)
StepAfterBack(s) == IF s > 1 THEN s - 1 ELSE s

\* the render branches: the success screen replaces every step once submitted
\* a render that keeps the steps on screen after the submission
StepRenderedAlways(n) == currentStep = n
StepRendered(n) == ~isSubmitted /\ currentStep = n

-----------------------------------------------------------------------------
(* StepOne.tsx: validation and form *)

DISPOSABLE ==
    {"yopmail.com", "mailinator.com", "guerrillamail.com", "10minutemail.com",
     "sharklasers.com", "tempmail.com"}

\* /^(\d)\1{5,}$/.test(d)
RepeatedDigit(d) == Len(d) >= 6 /\ AllDigits(d) /\ \A i \in 1..Len(d) : Char(d, i) = Char(d, 1)

looksSequentialOrRepeated(digits) ==
    LET d == OnlyDigits(digits)
    IN  IF d = "" THEN FALSE
        ELSE \/ RepeatedDigit(d)
             \/ Includes("01234567890123456789", d)
             \/ Includes("98765432109876543210", d)

\* raw.startsWith("+") ? raw : raw.startsWith("0") ? "+44" + raw.slice(1) : "+44" + raw
ToE164(v) ==
    LET raw == StripSpaces(v)
    IN  IF StartsWith(raw, "+") THEN raw
        ELSE IF StartsWith(raw, "0") THEN "+44" \o SubSeq(raw, 2, Len(raw))
        ELSE "+44" \o raw

\* isValidPhoneNumber(e164, "GB") of libphonenumber-js, an external library: a GB number
\* is +44 and a national number that matches [1-357-9]\d{9}|[18]\d{8}|8001111
isValidPhoneNumber(e164) ==
    /\ StartsWith(e164, "+44")
    /\ LET national == SubSeq(e164, 4, Len(e164))
       IN  /\ AllDigits(national)
           /\ \/ Len(national) = 10 /\ Char(national, 1) \in {"1", "2", "3", "5", "7", "8", "9"}
              \/ Len(national) = 9 /\ Char(national, 1) \in {"1", "8"}
              \/ national = "8001111"

\* parsePhoneNumberFromString(e164).getType() of the same library: 70 is a personal
\* number and 76 a pager range, the other 7x ranges are mobile
getType(e164) ==
    IF StartsWith(e164, "+4470") THEN "PERSONAL_NUMBER"
    ELSE IF StartsWith(e164, "+4476") THEN "PAGER"
    ELSE IF StartsWith(e164, "+447") THEN "MOBILE"
    ELSE "FIXED_LINE"

ukMobile(v) ==
    LET e164 == ToE164(Trim(v))
        national == IF StartsWith(e164, "+44") THEN "0" \o SubSeq(e164, 4, Len(e164)) ELSE e164
    IN  /\ StartsWith(e164, "+447") /\ Len(e164) = 13 /\ AllDigits(SubSeq(e164, 5, 13))
        /\ isValidPhoneNumber(e164)
        /\ ~looksSequentialOrRepeated(national)
        /\ getType(e164) = "MOBILE"

\* isEmail(v, {require_tld: true, ...}) of the validator library, an external library:
\* one "@", a local part, and a domain with a dot inside it
isEmail(v) ==
    LET domain == AfterAt(v)
    IN  /\ \E i \in 2..Len(v) : Char(v, i) = "@" /\ SubSeq(v, i + 1, Len(v)) = domain
        /\ ~Includes(v, " ")
        /\ \E i \in 2..(Len(domain) - 1) : Char(domain, i) = "."

\* the value emailSchema parses to: trimmed and lower-cased
EmailValue(v) == ToLower(Trim(v))
emailSchema(v) == isEmail(EmailValue(v)) /\ AfterAt(EmailValue(v)) \notin DISPOSABLE

formSchema1(f) ==
    /\ Len(f.contactName) >= 2
    /\ ukMobile(f.phoneNumber)
    /\ emailSchema(f.email)

\* useForm defaultValues of StepOne
Defaults1(d) ==
    [contactName |-> d.contactName, companyName |-> d.companyName,
     phoneNumber |-> d.phoneNumber, email |-> d.email]

\* the values zod parses and onSubmit passes to onNext
onSubmit1(f) ==
    [contactName |-> f.contactName, companyName |-> f.companyName,
     phoneNumber |-> Trim(f.phoneNumber), email |-> EmailValue(f.email)]

-----------------------------------------------------------------------------
(* StepTwo (booking-steps/SuccessScreen.tsx, second half): tables, validation, form *)

TIME_SLOTS ==
    <<[key |-> "ANY", label |-> "Any time"],
      [key |-> "6_9_AM", label |-> "06:00-09:00"],
      [key |-> "9_12_AM", label |-> "09:00-12:00"],
      [key |-> "12_3_PM", label |-> "12:00-15:00"],
      [key |-> "3_6_PM", label |-> "15:00-18:00"],
      [key |-> "6_9_PM", label |-> "18:00-21:00"],
      [key |-> "AFTER_9PM", label |-> "After 21:00"]>>

LEGACY_LABEL_TO_KEY ==
    <<<<"any time", "ANY">>, <<"6-9am", "6_9_AM">>, <<"9-12am", "9_12_AM">>,
      <<"12-3pm", "12_3_PM">>, <<"3-6pm", "3_6_PM">>, <<"6-9pm", "6_9_PM">>,
      <<"after 9pm", "AFTER_9PM">>>>

\* TIME_SLOTS.find((t) => t.key === key)?.label ?? ""
SlotLabel(key) ==
    IF \E i \in 1..Len(TIME_SLOTS) : TIME_SLOTS[i].key = key
    THEN TIME_SLOTS[CHOOSE i \in 1..Len(TIME_SLOTS) : TIME_SLOTS[i].key = key].label
    ELSE ""

\* the fallback of defaultValues.collectionTimeSlot for a draft without a slot key
LegacyKey(collectionTime) ==
    LET legacy == Trim(ToLower(Coalesce(collectionTime, "")))
        n == Len(LEGACY_LABEL_TO_KEY)
    IN  IF legacy # "" /\ \E i \in 1..n : LEGACY_LABEL_TO_KEY[i][1] = legacy
        THEN LEGACY_LABEL_TO_KEY[CHOOSE i \in 1..n : LEGACY_LABEL_TO_KEY[i][1] = legacy][2]
        ELSE IF \E i \in 1..n : Includes(legacy, LEGACY_LABEL_TO_KEY[i][1])
        THEN LEGACY_LABEL_TO_KEY[CHOOSE i \in 1..n :
                /\ Includes(legacy, LEGACY_LABEL_TO_KEY[i][1])
                /\ \A j \in 1..(i - 1) : ~Includes(legacy, LEGACY_LABEL_TO_KEY[j][1])][2]
        ELSE ""

\* /^[A-Z]{1,2}\d{1,2}[A-Z]?\s?\d[A-Z]{2}$/i
UK_PC_REGEX(s) ==
    \E a \in 1..2, b \in 1..2, c \in 0..1, w \in 0..1 :
        /\ Len(s) = a + b + c + w + 3
        /\ \A i \in 1..a : IsLetter(Char(s, i))
        /\ \A i \in (a + 1)..(a + b) : IsDigit(Char(s, i))
        /\ c = 1 => IsLetter(Char(s, a + b + 1))
        /\ w = 1 => IsSpace(Char(s, a + b + c + 1))
        /\ IsDigit(Char(s, a + b + c + w + 1))
        /\ IsLetter(Char(s, a + b + c + w + 2))
        /\ IsLetter(Char(s, a + b + c + w + 3))

\* the superRefine of formSchema: the alternate contact, required when !sameContact
AltContactOk(f) ==
    f.sameContact \/
        /\ Len(Trim(f.collectionContactName)) >= 2
        /\ isValidPhoneNumber(ToE164(f.collectionPhoneNumber))

formSchema2(f) ==
    /\ f.collectionDate # NoDate
    /\ Len(f.collectionTimeSlot) >= 1
    /\ UK_PC_REGEX(f.postcode)
    /\ Len(f.addressLine1) >= 1
    /\ Len(f.town) >= 1
    /\ AltContactOk(f)

\* startOfToday()
Today == <<2026, 11, 4>>

\* useForm defaultValues of StepTwo
Defaults2(d) ==
    [collectionDate |-> IF d.collectionDate = NoDate THEN Today ELSE d.collectionDate,
     collectionTimeSlot |->
        IF d.collectionTimeSlot # Undefined THEN d.collectionTimeSlot
        ELSE LegacyKey(d.collectionTime),
     postcode |-> ToUpper(Coalesce(d.postcode, "")),
     addressLine1 |-> Coalesce(d.addressLine1, ""),
     addressLine2 |-> Coalesce(d.addressLine2, ""),
     town |-> Coalesce(d.town, ""),
     county |-> Coalesce(d.county, ""),
     sameContact |-> d.sameContact,
     collectionContactName |-> Coalesce(d.collectionContactName, ""),
     collectionPhoneNumber |-> Coalesce(d.collectionPhoneNumber, "")]

\* the object StepTwo.onSubmit passes to onNext
onSubmit2(f) ==
    [collectionDate |-> f.collectionDate,
     collectionTimeSlot |-> f.collectionTimeSlot,
     collectionTime |-> SlotLabel(f.collectionTimeSlot),
     postcode |-> ToUpper(f.postcode),
     addressLine1 |-> f.addressLine1,
     addressLine2 |-> f.addressLine2,
     town |-> f.town,
     county |-> f.county,
     sameContact |-> f.sameContact,
     collectionContactName |-> IF f.sameContact THEN Undefined ELSE f.collectionContactName,
     collectionPhoneNumber |-> IF f.sameContact THEN Undefined ELSE f.collectionPhoneNumber]

-----------------------------------------------------------------------------
(* StepThree (unnamed/part_001): tables, validation, form *)

SLOT_RULES ==
    [k \in {"ANY", "6_9_AM", "9_12_AM", "12_3_PM", "3_6_PM", "6_9_PM", "AFTER_9PM"} |->
        CASE k = "ANY" -> [display |-> "Any time", surcharge |-> 0, min |-> 0]
          [] k = "6_9_AM" -> [display |-> "06:00-09:00", surcharge |-> 29, min |-> 0]
          [] k = "9_12_AM" -> [display |-> "09:00-12:00", surcharge |-> 0, min |-> 0]
          [] k = "12_3_PM" -> [display |-> "12:00-15:00", surcharge |-> 0, min |-> 0]
          [] k = "3_6_PM" -> [display |-> "15:00-18:00", surcharge |-> 29, min |-> 0]
          [] k = "6_9_PM" -> [display |-> "18:00-21:00", surcharge |-> 39, min |-> 0]
          [] k = "AFTER_9PM" -> [display |-> "After 21:00", surcharge |-> 0, min |-> 179]]

\* SLOT_RULES[slotKey] || SLOT_RULES["ANY"], with slotKey = initialData.collectionTimeSlot || ""
slotRule(d) ==
    LET slotKey == OrElse(d.collectionTimeSlot, "")
    IN  IF slotKey \in DOMAIN SLOT_RULES THEN SLOT_RULES[slotKey] ELSE SLOT_RULES["ANY"]

\* an amount that is the flat surcharge for every key
amountAlwaysSurcharge(d) == slotRule(d).surcharge
amountGBP(d) ==
    IF OrElse(d.collectionTimeSlot, "") = "AFTER_9PM" THEN slotRule(d).min ELSE slotRule(d).surcharge

\* a translation that sends the UI identifiers as they are
toApiMethodUntranslated(v) == v
toApiMethod(v) ==
    IF v = "whatsapp" THEN "WhatsApp" ELSE IF v = "email" THEN "Email"
    ELSE IF v = "sms" THEN "SMS" ELSE v
toApiMethods(vals) == [i \in 1..Len(vals) |-> toApiMethod(vals[i])]

formSchema3(f) ==
    /\ Len(f.notificationMethods) >= 1
    /\ Len(f.wasteTypes) >= 1
    /\ Len(f.paymentMethod) >= 1

\* useForm defaultValues of StepThree
Defaults3(d) ==
    [notificationMethods |->
        [i \in 1..Len(d.notificationMethods) |-> ToLower(d.notificationMethods[i])],
     wasteTypes |-> d.wasteTypes,
     specialInstructions |-> OrElse(d.specialInstructions, ""),
     urgentJob |-> d.urgentJob,
     paymentMethod |-> OrElse(Get(d, "paymentMethod"), "")]

\* the object StepThree.handleSubmit passes to onSubmit; intentId # "" on the card branch
Normalized(f, intentId) ==
    LET common ==
            [notificationMethods |-> toApiMethods(f.notificationMethods),
             wasteTypes |-> f.wasteTypes,
             wasteTypesSelected |-> f.wasteTypes,
             specialInstructions |-> OrElse(Trim(f.specialInstructions), Undefined),
             urgentJob |-> f.urgentJob]
    IN  IF intentId # ""
        THEN Spread(common, [paymentMethod |-> "card", paymentStatus |-> "Paid",
                             paymentIntentId |-> intentId])
        ELSE Spread(common, [paymentMethod |-> f.paymentMethod, paymentStatus |-> "Unpaid"])

\* a submit button that is not disabled while a submission is outstanding
SubmitEnabledWhileSubmitting == formSchema3(form3)
\* the submit button: disabled={submitting || !form.formState.isValid}
SubmitEnabled == ~submitting /\ formSchema3(form3)
\* the inputs and the Back button of StepThree: disabled={submitting}
Step3Unlocked == ~submitting

-----------------------------------------------------------------------------
(* BookingForm.handleSubmit: the merged draft and the payload *)

TextKeys ==
    {"contactName", "companyName", "phoneNumber", "email", "collectionTime",
     "collectionTimeSlot", "postcode", "addressLine1", "addressLine2", "town", "county",
     "collectionContactName", "collectionPhoneNumber", "jobDescription",
     "specialInstructions", "paymentMethod", "paymentStatus", "paymentIntentId",
     "collectionDate"}

\* a serialisation that only carries the text fields
SerializeTextOnly(obj) ==
    [k \in {x \in DOMAIN obj : x \in TextKeys /\ obj[x] # Undefined} |-> obj[k]]
\* JSON.stringify leaves out the keys whose value is undefined
Serialize(obj) ==
    [k \in {x \in DOMAIN obj : x \notin TextKeys \/ obj[x] # Undefined} |-> obj[k]]

Merged(prev, data) == Spread(prev, data)

PayloadOf(merged) ==
    LET wasteTypes == IF "wasteTypes" \in DOMAIN merged THEN merged.wasteTypes ELSE <<>>
        wasteTypesSelected ==
            IF "wasteTypesSelected" \in DOMAIN merged THEN merged.wasteTypesSelected
            ELSE wasteTypes
        slotKey == OrElse(merged.collectionTimeSlot, "")
        slotLabel ==
            OrElse(merged.collectionTime,
                   IF slotKey # ""
                   THEN (IF slotKey \in DOMAIN SLOT_LABEL_BY_KEY
                         THEN SLOT_LABEL_BY_KEY[slotKey] ELSE Undefined)
                   ELSE "")
    IN  Serialize(
          [contactName |-> merged.contactName,
           companyName |-> OrElse(merged.companyName, Undefined),
           phoneNumber |-> merged.phoneNumber,
           email |-> merged.email,
           collectionDate |-> toYMD(merged.collectionDate),
           collectionTimeSlot |-> slotKey,
           collectionTime |-> slotLabel,
           postcode |-> merged.postcode,
           addressLine1 |-> merged.addressLine1,
           addressLine2 |-> merged.addressLine2,
           town |-> merged.town,
           county |-> merged.county,
           sameContact |-> merged.sameContact,
           collectionContactName |-> merged.collectionContactName,
           collectionPhoneNumber |-> merged.collectionPhoneNumber,
           notificationMethods |-> merged.notificationMethods,
           wasteTypes |-> wasteTypes,
           wasteTypesSelected |-> wasteTypesSelected,
           jobDescription |-> merged.jobDescription,
           specialInstructions |-> OrElse(merged.specialInstructions, Undefined),
           urgentJob |-> merged.urgentJob])

-----------------------------------------------------------------------------
(* lib/gas.ts: submitBookingToGoogleSheets *)

\* what the primary fetch can end with:
\*   network_error  fetch rejects, the request never reached the backend
\*   opaque         fetch rejects because the cross-origin response is unreadable
\*   http_error     a response with !res.ok
\*   ok_false       a 2xx response whose JSON body is {ok: false, error}
\*   ok_true        a 2xx response whose JSON body does not say ok: false
\*   non_json       a 2xx response whose body is not JSON
PrimaryOutcomes == {"network_error", "opaque", "http_error", "ok_false", "ok_true", "non_json"}

\* a transport that reports success when the primary exchange throws
AfterPrimaryNoFallback(r) == "return"
\* the path through the try block of lines 47-71: "return" or "fallback".
\* The throw of line 65 is inside the inner try and the bare catch of line 67 takes it.
AfterPrimary(r) ==
    CASE r \in {"network_error", "opaque"} -> "fallback"
      [] r = "http_error" -> "fallback"
      [] r = "ok_false" -> "return"
      [] r = "ok_true" -> "return"
      [] r = "non_json" -> "return"

\* what the no-cors fetch of the catch block can end with
FallbackOutcomes == {"stored", "rejected", "network_error"}
\* a catch block that swallows the rejection of the no-cors fetch
AfterFallbackAlwaysReturns(r) == "return"
\* the catch block of lines 72-80 awaits the fetch and returns; a rejection propagates
AfterFallback(r) == IF r = "network_error" THEN "throw" ELSE "return"

-----------------------------------------------------------------------------
(* The values the user types *)

Samples1 ==
    {[contactName |-> "Jane Doe", companyName |-> "", phoneNumber |-> "+447911123456",
      email |-> "Jane@Example.com"],
     [contactName |-> "Jane Doe", companyName |-> "Acme", phoneNumber |-> "07911 123456",
      email |-> "jane@example.com"],
     [contactName |-> "J", companyName |-> "", phoneNumber |-> "+447911123456",
      email |-> "jane@example.com"],
     [contactName |-> "Jane Doe", companyName |-> "", phoneNumber |-> "07000000000",
      email |-> "jane@yopmail.com"]}

Tomorrow == <<2026, 11, 5>>

Samples2 ==
    {[collectionDate |-> Today, collectionTimeSlot |-> "6_9_AM", postcode |-> "SW1A 1AA",
      addressLine1 |-> "10 Downing St", addressLine2 |-> "", town |-> "London",
      county |-> "", sameContact |-> TRUE,
      collectionContactName |-> "", collectionPhoneNumber |-> ""],
     [collectionDate |-> Tomorrow, collectionTimeSlot |-> "ANY", postcode |-> "EC1A 1BB",
      addressLine1 |-> "1 High St", addressLine2 |-> "Flat 2", town |-> "London",
      county |-> "Greater London", sameContact |-> FALSE,
      collectionContactName |-> "Bob Roe", collectionPhoneNumber |-> "07911 123457"],
     [collectionDate |-> Tomorrow, collectionTimeSlot |-> "AFTER_9PM", postcode |-> "EC1A 1BB",
      addressLine1 |-> "1 High St", addressLine2 |-> "Flat 2", town |-> "London",
      county |-> "Greater London", sameContact |-> TRUE,
      collectionContactName |-> "Bob Roe", collectionPhoneNumber |-> "07911 123457"],
     [collectionDate |-> Tomorrow, collectionTimeSlot |-> "12_3_PM", postcode |-> "SW1A 1AA",
      addressLine1 |-> "10 Downing St", addressLine2 |-> "", town |-> "London",
      county |-> "", sameContact |-> FALSE,
      collectionContactName |-> "Bob Roe", collectionPhoneNumber |-> "0800 1111"],
     [collectionDate |-> Today, collectionTimeSlot |-> "", postcode |-> "SW1A",
      addressLine1 |-> "", addressLine2 |-> "", town |-> "", county |-> "",
      sameContact |-> FALSE, collectionContactName |-> "B", collectionPhoneNumber |-> "123"]}

Samples3 ==
    {[notificationMethods |-> <<"email">>, wasteTypes |-> <<"Garden waste">>,
      specialInstructions |-> "", urgentJob |-> FALSE, paymentMethod |-> "cash"],
     [notificationMethods |-> <<"whatsapp", "sms">>, wasteTypes |-> <<"Wood">>,
      specialInstructions |-> " Ring bell ", urgentJob |-> TRUE, paymentMethod |-> "card"],
     [notificationMethods |-> <<>>, wasteTypes |-> <<"Wood">>,
      specialInstructions |-> "", urgentJob |-> FALSE, paymentMethod |-> ""]}

-----------------------------------------------------------------------------
(* State *)

\* the form values of a step that is not mounted
NoForm1 == Defaults1(InitialFormData)
NoForm2 == Defaults2(InitialFormData)
NoForm3 == Defaults3(InitialFormData)

NoTimer == ""
IdleSub ==
    [pc |-> "idle", method |-> "", amount |-> 0, confirmed |-> "", intentId |-> "",
     payload |-> <<>>]
NothingEnded == [kind |-> "none", seen |-> <<>>, gets |-> 0, status |-> "none"]
NoWindow == [edits |-> 0, fired |-> 0]
NothingLeft == [step |-> 0, form |-> <<>>]
NothingApplied == "none"
NothingPassed == <<>>

Init ==
    /\ currentStep = 1
    /\ isSubmitted = FALSE
    /\ formData = InitialFormData
    /\ form1 = Defaults1(InitialFormData)
    /\ form2 = NoForm2
    /\ pcStatus = "null"
    /\ debounce = NoTimer
    /\ lookups = <<>>
    /\ form3 = NoForm3
    /\ submitting = FALSE
    /\ subs = [i \in 1..MaxAttempts |-> IdleSub]
    /\ attempts = 0
    /\ charges = 0
    /\ lastPrimary = "none"
    /\ notice = "none"
    /\ left = NothingLeft
    /\ applied = NothingApplied
    /\ lastFallback = "none"
    /\ ended = NothingEnded
    /\ window = NoWindow
    /\ passed = NothingPassed

\* an effect that leaves a pending timer in place instead of replacing it
TimerKeptIfPending(watched) == IF debounce # NoTimer THEN debounce ELSE ToUpper(Trim(watched))
\* the effect of StepTwo on the watched postcode: the pending timer is replaced
\* (clearTimeout, then setTimeout unless the trimmed value is empty)
TimerAfterEffect(watched) == ToUpper(Trim(watched))
StatusAfterEffect(watched, status) == IF ToUpper(Trim(watched)) = "" THEN "null" ELSE status

\* the debounce window after the watched postcode changed to `watched`
WindowAfterChange(watched) ==
    IF TimerAfterEffect(watched) = NoTimer THEN NoWindow
    ELSE [edits |-> IF debounce = NoTimer THEN 1
                    ELSE IF window.edits < MaxEdits THEN window.edits + 1 ELSE MaxEdits,
          fired |-> 0]

\* StepTwo is mounted with the draft d: fresh state, and the effect runs once
MountStepTwo(d) ==
    /\ form2' = Defaults2(d)
    /\ pcStatus' = "null"
    /\ debounce' = TimerAfterEffect(Defaults2(d).postcode)
    /\ lookups' = <<>>
    /\ window' = IF debounce' = NoTimer THEN NoWindow ELSE [edits |-> 1, fired |-> 0]

\* StepTwo is unmounted: the effect's cleanup clears the timer; what outstanding
\* lookups do to the unmounted form is not visible any more
UnmountStepTwo ==
    /\ form2' = NoForm2
    /\ pcStatus' = "null"
    /\ debounce' = NoTimer
    /\ lookups' = <<>>
    /\ window' = NoWindow

MountStepThree(d) == form3' = Defaults3(d) /\ submitting' = FALSE
UnmountStepThree == form3' = NoForm3 /\ submitting' = FALSE

\* BookingForm renders the step `step` with initialData = d; the step left is unmounted
Render(step, d) ==
    /\ form1' = IF step = 1 THEN Defaults1(d) ELSE NoForm1
    /\ IF step = 2 THEN MountStepTwo(d) ELSE UnmountStepTwo
    /\ IF step = 3 THEN MountStepThree(d) ELSE UnmountStepThree
    /\ left' = IF left.step = step THEN NothingLeft ELSE left

-----------------------------------------------------------------------------
(* BookingForm: handleNext and handleBack *)

handleNext(data) ==
    /\ formData' = MergeNext(formData, data)
    /\ passed' = data
    /\ currentStep' = StepAfterNext(currentStep)
    /\ Render(currentStep', formData')
    /\ UNCHANGED <<isSubmitted, subs, attempts, charges, lastPrimary, notice, applied,
                   lastFallback, ended>>

handleBack ==
    /\ currentStep' = StepAfterBack(currentStep)
    /\ form1' = IF currentStep' = 1 THEN Defaults1(formData) ELSE NoForm1
    /\ IF currentStep' = 2 THEN MountStepTwo(formData) ELSE UnmountStepTwo
    /\ IF currentStep' = 3 THEN MountStepThree(formData) ELSE UnmountStepThree
    /\ left' = [step |-> currentStep, form |-> IF currentStep = 2 THEN form2 ELSE form3]
    /\ passed' = NothingPassed
    /\ UNCHANGED <<isSubmitted, formData, subs, attempts, charges, lastPrimary, notice,
                   applied, lastFallback, ended>>

-----------------------------------------------------------------------------
(* StepOne *)

TypeStep1(v) ==
    /\ StepRendered(1)
    /\ v # form1
    /\ form1' = v
    /\ UNCHANGED <<currentStep, isSubmitted, formData, form2, pcStatus, debounce, lookups,
                   form3, submitting, subs, attempts, charges, lastPrimary, notice, left,
                   applied,
                   lastFallback, ended, window, passed>>

\* form.handleSubmit(onSubmit) of StepOne: onSubmit runs when the resolver passes
Continue1 ==
    /\ StepRendered(1)
    /\ formSchema1(form1)
    /\ handleNext(onSubmit1(form1))

-----------------------------------------------------------------------------
(* StepTwo: the form *)

\* the user changes form values to v; the postcode input upper-cases what is typed,
\* sets pcStatus "idle", and the watched value re-runs the effect
TypeStep2(v) ==
    LET typed == [v EXCEPT !.postcode = ToUpper(v.postcode)]
    IN  /\ StepRendered(2)
        /\ typed # form2
        /\ form2' = typed
        /\ IF typed.postcode # form2.postcode
           THEN /\ debounce' = TimerAfterEffect(typed.postcode)
                /\ pcStatus' = StatusAfterEffect(typed.postcode, "idle")
                /\ window' = WindowAfterChange(typed.postcode)
           ELSE UNCHANGED <<debounce, pcStatus, window>>
        /\ UNCHANGED <<currentStep, isSubmitted, formData, form1, lookups, form3, submitting,
                       subs, attempts, charges, lastPrimary, notice, left, applied,
                       lastFallback, ended, passed>>

\* a Continue that a failed lookup blocks
Continue2OnlyAfterLookup ==
    /\ StepRendered(2)
    /\ formSchema2(form2)
    /\ pcStatus \notin {"notfound", "error"}
    /\ handleNext(onSubmit2(form2))
\* form.handleSubmit(onSubmit) of StepTwo: onSubmit runs when the resolver passes
Continue2 ==
    /\ StepRendered(2)
    /\ formSchema2(form2)
    /\ handleNext(onSubmit2(form2))

Back2 ==
    /\ StepRendered(2)
    /\ handleBack

-----------------------------------------------------------------------------
(* StepThree: the form and handleSubmit *)

TypeStep3(v) ==
    /\ StepRendered(3)
    /\ Step3Unlocked
    /\ v # form3
    /\ form3' = v
    /\ UNCHANGED <<currentStep, isSubmitted, formData, form1, form2, pcStatus, debounce,
                   lookups, submitting, subs, attempts, charges, lastPrimary, notice, left,
                   applied,
                   lastFallback, ended, window, passed>>

Back3 ==
    /\ StepRendered(3)
    /\ Step3Unlocked
    /\ handleBack

\* what createPaymentIntentOnServer and elements.getElement(CardElement) can end with
IntentOutcomes == {"client_secret", "error", "card_element_missing"}
\* what stripe.confirmCardPayment can resolve to: {error}, or a paymentIntent and its status
ConfirmOutcomes == {"error", "succeeded", "processing"}

\* a card branch that only looks at result.error
PaymentNotRefused(r) == r # "error"
\* lines 183-184: the charge counts only without error and with status "succeeded"
PaymentCompleted(r) == r # "error" /\ r = "succeeded"

\* StepThree.handleSubmit ends: alert on a throw, then finally setSubmitting(false)
EndAttempt(i, shown) ==
    /\ subs' = [subs EXCEPT ![i] = IdleSub]
    /\ submitting' = FALSE
    /\ notice' = shown

\* BookingForm.handleSubmit up to its await: setFormData(merged), and the primary POST
\* of submitBookingToGoogleSheets is issued with the payload
StartPost(i, method, confirmed, intentId) ==
    LET merged == Merged(formData, Normalized(form3, intentId))
    IN  /\ formData' = merged
        /\ subs' = [subs EXCEPT ![i] =
                [pc |-> "primary", method |-> method, amount |-> subs[i].amount,
                 confirmed |-> confirmed, intentId |-> intentId,
                 payload |-> PayloadOf(merged)]]

\* the submit button of StepThree is pressed: form.handleSubmit(handleSubmit)
ClickSubmit(stripeReady) ==
    /\ StepRendered(3)
    /\ SubmitEnabled
    /\ attempts < MaxAttempts
    /\ attempts' = attempts + 1
    /\ IF form3.paymentMethod = "card"
       THEN IF stripeReady
            THEN /\ subs' = [subs EXCEPT ![attempts + 1] =
                        [IdleSub EXCEPT !.pc = "intent", !.method = "card",
                                        !.amount = amountGBP(formData)]]
                 /\ submitting' = TRUE
                 /\ UNCHANGED <<formData, notice>>
            ELSE /\ EndAttempt(attempts + 1, "alert")
                 /\ UNCHANGED formData
       ELSE /\ stripeReady
            /\ StartPost(attempts + 1, form3.paymentMethod, "", "")
            /\ submitting' = TRUE
            /\ UNCHANGED notice
    /\ UNCHANGED <<currentStep, isSubmitted, form1, form2, pcStatus, debounce, lookups,
                   form3, charges, lastPrimary, left, applied,
                   lastFallback, ended, window, passed>>

\* createPaymentIntentOnServer answers, and the card element is looked up
IntentResponse(i, r) ==
    /\ subs[i].pc = "intent"
    /\ IF r = "client_secret"
       THEN /\ subs' = [subs EXCEPT ![i].pc = "confirm"]
            /\ UNCHANGED <<submitting, notice>>
       ELSE EndAttempt(i, "alert")
    /\ UNCHANGED <<currentStep, isSubmitted, formData, form1, form2, pcStatus, debounce,
                   lookups, form3, attempts, charges, lastPrimary, left, applied,
                   lastFallback, ended, window, passed>>

\* stripe.confirmCardPayment answers
ConfirmResponse(i, r) ==
    /\ subs[i].pc = "confirm"
    /\ charges' = IF r = "succeeded" THEN charges + 1 ELSE charges
    /\ IF PaymentCompleted(r)
       THEN /\ StartPost(i, "card", r, "pi_" \o ToString(charges'))
            /\ UNCHANGED <<submitting, notice>>
       ELSE /\ EndAttempt(i, "alert")
            /\ UNCHANGED formData
    /\ UNCHANGED <<currentStep, isSubmitted, form1, form2, pcStatus, debounce, lookups,
                   form3, attempts, lastPrimary, left, applied,
                   lastFallback, ended, window, passed>>

\* submitBookingToGoogleSheets returned: sonner.success, setIsSubmitted(true); the
\* success screen replaces StepThree
Submitted(i) ==
    /\ isSubmitted' = TRUE
    /\ EndAttempt(i, "success")
    /\ form3' = NoForm3

\* the primary fetch of submitBookingToGoogleSheets ends with r
PrimaryResponse(i, r) ==
    /\ subs[i].pc = "primary"
    /\ lastPrimary' = r
    /\ IF AfterPrimary(r) = "return"
       THEN Submitted(i)
       ELSE /\ subs' = [subs EXCEPT ![i].pc = "fallback"]
            /\ UNCHANGED <<isSubmitted, submitting, notice, form3>>
    /\ UNCHANGED <<currentStep, formData, form1, form2, pcStatus, debounce, lookups,
                   attempts, charges, left, applied,
                   lastFallback, ended, window, passed>>

\* the no-cors fetch of the catch block ends with r; a rejection reaches the catch
\* of BookingForm.handleSubmit: sonner.error
FallbackResponse(i, r) ==
    /\ subs[i].pc = "fallback"
    /\ lastFallback' = r
    /\ IF AfterFallback(r) = "return"
       THEN Submitted(i)
       ELSE /\ EndAttempt(i, "error")
            /\ UNCHANGED <<isSubmitted, form3>>
    /\ UNCHANGED <<currentStep, formData, form1, form2, pcStatus, debounce, lookups,
                   attempts, charges, lastPrimary, left, applied, ended, window, passed>>

\* "Book Another Service": window.location.reload()
Reload ==
    /\ isSubmitted
    /\ currentStep' = 1
    /\ isSubmitted' = FALSE
    /\ formData' = InitialFormData
    /\ form1' = Defaults1(InitialFormData)
    /\ form2' = NoForm2
    /\ pcStatus' = "null"
    /\ debounce' = NoTimer
    /\ lookups' = <<>>
    /\ form3' = NoForm3
    /\ submitting' = FALSE
    /\ subs' = [i \in 1..MaxAttempts |-> IdleSub]
    /\ notice' = "none"
    /\ left' = NothingLeft
    /\ applied' = NothingApplied
    /\ lastFallback' = "none"
    /\ ended' = NothingEnded
    /\ window' = NoWindow
    /\ passed' = NothingPassed
    /\ lastPrimary' = "none"
    /\ UNCHANGED <<attempts, charges>>

-----------------------------------------------------------------------------
(* StepTwo: the postcode lookup *)

\* what the address provider can answer to addressfind: the items of the response
NoItems == <<>>
OnlyContainer == <<[Id |-> "GB|C1", id |-> Undefined, Type |-> "Postcode"]>>
ContainerThenAddress ==
    <<[Id |-> "GB|C2", id |-> Undefined, Type |-> "Street"],
      [Id |-> "GB|A1", id |-> Undefined, Type |-> "Address"]>>
OnlyAddress == <<[Id |-> Undefined, id |-> "GB|A2", Type |-> "address"]>>
NoIdentifier == <<[Id |-> Undefined, id |-> Undefined, Type |-> Undefined]>>
FindItems == {NoItems, OnlyContainer, ContainerThenAddress, OnlyAddress, NoIdentifier}

\* what the provider can answer to addressget: the item of the response
FullItem ==
    [Line1 |-> "10 Downing Street", Line2 |-> "Westminster", PostTown |-> "London",
     ProvinceName |-> "Greater London", PostalCode |-> "SW1A 1AA"]
AliasItem ==
    [Address1 |-> "1 High St", Address2 |-> "Suite 5", City |-> "Leeds",
     Postcode |-> "ec1a 1bb"]
NoItem == <<>>
GetItems == {FullItem, AliasItem}

\* it.Id || it.id
ItemId(it) == OrElse(OrElse(it.Id, it.id), Undefined)
\* (it.Type || "").toLowerCase() === "address"
IsAddressItem(it) == ToLower(OrElse(it.Type, "")) = "address"
\* items.find(IsAddressItem) and then address?.Id || address?.id
FirstAddressId(items) ==
    IF \E i \in 1..Len(items) : IsAddressItem(items[i])
    THEN ItemId(items[CHOOSE i \in 1..Len(items) :
                    IsAddressItem(items[i]) /\ \A j \in 1..(i - 1) : ~IsAddressItem(items[j])])
    ELSE Undefined
\* items[0]?.Id || items[0]?.id
FirstItemId(items) == IF Len(items) = 0 THEN Undefined ELSE ItemId(items[1])

mapLoqateToUi(raw) ==
    [line1 |-> OrElse(OrElse(Get(raw, "Line1"), Get(raw, "Address1")), ""),
     line2 |-> OrElse(OrElse(Get(raw, "Line2"), Get(raw, "Address2")), ""),
     town |-> OrElse(OrElse(OrElse(Get(raw, "PostTown"), Get(raw, "City")), Get(raw, "Town")), ""),
     county |-> OrElse(OrElse(OrElse(Get(raw, "ProvinceName"), Get(raw, "County")),
                              Get(raw, "Province")), ""),
     postcode |-> ToUpper(OrElse(OrElse(OrElse(Get(raw, "PostalCode"), Get(raw, "PostCode")),
                                        Get(raw, "Postcode")), ""))]

\* a cascade that takes the first candidate whatever its type
resolveTakesFirstItem(level, items) ==
    IF Len(items) = 0 THEN <<"null", Undefined>> ELSE <<"address", FirstItemId(items)>>
\* a cascade without the depth bound
resolveWithoutDepthBound(level, items) ==
    IF Len(items) = 0 THEN <<"null", Undefined>>
    ELSE IF FirstAddressId(items) # Undefined THEN <<"address", FirstAddressId(items)>>
    ELSE IF FirstItemId(items) # Undefined THEN <<"narrow", FirstItemId(items)>>
    ELSE <<"null", Undefined>>
\* one step of resolveFirstAddressId after the find-call number `level` answered with
\* items: <<"address", id>>, <<"narrow", container>> or <<"null", Undefined>>
resolveFirstAddressId(level, items) ==
    IF level < 3 /\ Len(items) = 0 THEN <<"null", Undefined>>
    ELSE IF FirstAddressId(items) # Undefined THEN <<"address", FirstAddressId(items)>>
    ELSE IF level < 3 /\ FirstItemId(items) # Undefined THEN <<"narrow", FirstItemId(items)>>
    ELSE <<"null", Undefined>>

\* the form values after the setValue calls of lines 386-391 / 424-429
FormAfterLookup(f, addr) ==
    [f EXCEPT !.addressLine1 = IF addr.line1 # "" THEN addr.line1 ELSE @,
              !.addressLine2 = IF addr.line2 # "" /\ @ = "" THEN addr.line2 ELSE @,
              !.town = IF addr.town # "" THEN addr.town ELSE @,
              !.county = IF addr.county # "" THEN addr.county ELSE @,
              !.postcode = IF addr.postcode # "" THEN addr.postcode ELSE @]

CurrentPostcode == ToUpper(Trim(form2.postcode))

\* the lookup i ends without an address: setPcStatus(status), whatever the postcode
\* field holds by now
EndLookup(i, status) ==
    /\ lookups' = SubSeq(lookups, 1, i - 1) \o SubSeq(lookups, i + 1, Len(lookups))
    /\ pcStatus' = status
    /\ applied' = IF lookups[i].pc = CurrentPostcode THEN "current" ELSE "superseded"

\* the timer of the debounced effect fires for the postcode it was set for
TimerFire ==
    /\ StepRendered(2)
    /\ debounce # NoTimer
    /\ debounce' = NoTimer
    /\ window' = [window EXCEPT !.fired = @ + 1]
    /\ IF ~UK_PC_REGEX(debounce)
       THEN /\ pcStatus' = "notfound"
            /\ UNCHANGED lookups
       ELSE /\ Len(lookups) < MaxInFlight
            /\ pcStatus' = "loading"
            /\ lookups' = Append(lookups, [kind |-> "debounce", pc |-> debounce,
                                           stage |-> "find", finds |-> 1, arg |-> debounce,
                                           seen |-> <<>>])
    /\ ended' = NothingEnded
    /\ UNCHANGED <<currentStep, isSubmitted, formData, form1, form2, form3, submitting, subs,
                   attempts, charges, lastPrimary, notice, left, applied, lastFallback, passed>>

\* handlePostcodeBlur
Blur ==
    /\ StepRendered(2)
    /\ CurrentPostcode # "" /\ UK_PC_REGEX(CurrentPostcode)
    /\ pcStatus \notin {"ok", "notfound"}
    /\ Len(lookups) < MaxInFlight
    /\ pcStatus' = "loading"
    /\ lookups' = Append(lookups, [kind |-> "blur", pc |-> CurrentPostcode,
                                   stage |-> "find", finds |-> 1, arg |-> CurrentPostcode,
                                   seen |-> <<>>])
    /\ ended' = NothingEnded
    /\ UNCHANGED <<currentStep, isSubmitted, formData, form1, form2, debounce, form3,
                   submitting, subs, attempts, charges, lastPrimary, notice, left, applied,
                   lastFallback, window, passed>>

\* a gasCall of the lookup i throws: setPcStatus("error")
LookupError(i) ==
    /\ StepRendered(2)
    /\ i \in 1..Len(lookups)
    /\ EndLookup(i, "error")
    /\ ended' = [kind |-> lookups[i].kind, seen |-> lookups[i].seen,
                 gets |-> IF lookups[i].stage = "get" THEN 1 ELSE 0, status |-> "error"]
    /\ UNCHANGED <<currentStep, isSubmitted, formData, form1, form2, debounce, form3,
                   submitting, subs, attempts, charges, lastPrimary, notice, left,
                   lastFallback, window, passed>>

\* an addressfind call of the lookup i answers with items
FindResponse(i, items) ==
    /\ StepRendered(2)
    /\ i \in 1..Len(lookups)
    /\ lookups[i].stage = "find"
    /\ LET l == lookups[i]
           next == IF l.kind = "debounce" THEN resolveFirstAddressId(l.finds, items)
                   ELSE IF Len(items) = 0 THEN <<"null", Undefined>>
                   ELSE <<"address", FirstItemId(items)>>
       IN  CASE next[1] = "null" ->
                  /\ EndLookup(i, "notfound")
                  /\ ended' = [kind |-> l.kind, seen |-> Append(l.seen, items),
                               gets |-> 0, status |-> "notfound"]
             [] next[1] = "narrow" ->
                  /\ lookups' = [lookups EXCEPT ![i].finds = l.finds + 1, ![i].arg = next[2],
                                                ![i].seen = Append(l.seen, items)]
                  /\ UNCHANGED <<pcStatus, applied, ended, passed>>
             [] next[1] = "address" ->
                  /\ lookups' = [lookups EXCEPT ![i].stage = "get", ![i].arg = next[2],
                                                ![i].seen = Append(l.seen, items)]
                  /\ UNCHANGED <<pcStatus, applied, ended, passed>>
    /\ UNCHANGED <<currentStep, isSubmitted, formData, form1, form2, debounce, form3,
                   submitting, subs, attempts, charges, lastPrimary, notice, left,
                   lastFallback, window, passed>>

\* the addressget call of the lookup i answers with item; the result is written to the
\* form whatever the postcode field holds by now
GetResponse(i, item) ==
    /\ StepRendered(2)
    /\ i \in 1..Len(lookups)
    /\ lookups[i].stage = "get"
    /\ lookups' = SubSeq(lookups, 1, i - 1) \o SubSeq(lookups, i + 1, Len(lookups))
    /\ form2' = FormAfterLookup(form2, mapLoqateToUi(item))
    /\ IF form2'.postcode # form2.postcode
       THEN /\ debounce' = TimerAfterEffect(form2'.postcode)
            /\ window' = WindowAfterChange(form2'.postcode)
       ELSE UNCHANGED <<debounce, window>>
    /\ pcStatus' = "ok"
    /\ applied' = IF lookups[i].pc = CurrentPostcode THEN "current" ELSE "superseded"
    /\ ended' = [kind |-> lookups[i].kind, seen |-> lookups[i].seen, gets |-> 1,
                 status |-> "ok"]
    /\ UNCHANGED <<currentStep, isSubmitted, formData, form1, form3, submitting, subs,
                   attempts, charges, lastPrimary, notice, left, lastFallback, passed>>

-----------------------------------------------------------------------------
(* The wizard: the three forms, navigation, payment and submission *)

Next ==
    \/ \E v \in Samples1 : TypeStep1(v)
    \/ Continue1
    \/ \E v \in Samples2 : TypeStep2(v)
    \/ Continue2
    \/ Back2
    \/ \E v \in Samples3 : TypeStep3(v)
    \/ Back3
    \/ \E ready \in BOOLEAN : ClickSubmit(ready)
    \/ \E i \in 1..MaxAttempts, r \in IntentOutcomes : IntentResponse(i, r)
    \/ \E i \in 1..MaxAttempts, r \in ConfirmOutcomes : ConfirmResponse(i, r)
    \/ \E i \in 1..MaxAttempts, r \in PrimaryOutcomes : PrimaryResponse(i, r)
    \/ \E i \in 1..MaxAttempts, r \in FallbackOutcomes : FallbackResponse(i, r)
    \/ Reload

Spec == Init /\ [][Next]_vars

-----------------------------------------------------------------------------
(* The postcode lookup of StepTwo: one contact, then single edits of the Step 2 form *)

LookupContact ==
    [contactName |-> "Jane Doe", companyName |-> "", phoneNumber |-> "+447911123456",
     email |-> "jane@example.com"]

TypedPostcodes == {"SW1A", "SW1A 1AA", "ec1a1bb"}

SingleEdits2 == {[form2 EXCEPT !.postcode = p] : p \in TypedPostcodes}

NextLookup ==
    \/ TypeStep1(LookupContact)
    \/ Continue1
    \/ \E v \in SingleEdits2 : TypeStep2(v)
    \/ TimerFire
    \/ Blur
    \/ \E i \in 1..MaxInFlight : LookupError(i)
    \/ \E i \in 1..MaxInFlight, items \in FindItems : FindResponse(i, items)
    \/ \E i \in 1..MaxInFlight, item \in GetItems : GetResponse(i, item)

SpecLookup == Init /\ [][NextLookup]_vars

-----------------------------------------------------------------------------
(* Step 2, the cascade: one postcode, and every answer the provider can give *)

NextCascade ==
    \/ TypeStep1(LookupContact)
    \/ Continue1
    \/ TypeStep2([form2 EXCEPT !.postcode = "SW1A 1AA"])
    \/ TimerFire
    \/ \E i \in 1..MaxInFlight : LookupError(i)
    \/ \E i \in 1..MaxInFlight, items \in FindItems : FindResponse(i, items)
    \/ \E i \in 1..MaxInFlight, item \in GetItems : GetResponse(i, item)

SpecCascade == Init /\ [][NextCascade]_vars

-----------------------------------------------------------------------------
(* Step 2, the debounce: bursts of postcode edits, lookups that fail *)

NextDebounce ==
    \/ TypeStep1(LookupContact)
    \/ Continue1
    \/ \E p \in TypedPostcodes : TypeStep2([form2 EXCEPT !.postcode = p])
    \/ TimerFire
    \/ \E i \in 1..MaxInFlight : LookupError(i)

SpecDebounce == Init /\ [][NextDebounce]_vars

-----------------------------------------------------------------------------
(* Step 2, an address typed by hand while the lookup finds nothing or fails *)

\* a complete Step 2 form whose address the user typed
ManualForm ==
    [collectionDate |-> Today, collectionTimeSlot |-> "9_12_AM", postcode |-> "SW1A 1AA",
     addressLine1 |-> "2 Mill Lane", addressLine2 |-> "", town |-> "York", county |-> "",
     sameContact |-> TRUE, collectionContactName |-> "", collectionPhoneNumber |-> ""]

NextManual ==
    \/ TypeStep1(LookupContact)
    \/ Continue1
    \/ TypeStep2(ManualForm)
    \/ TimerFire
    \/ Blur
    \/ \E i \in 1..MaxInFlight : LookupError(i)
    \/ \E i \in 1..MaxInFlight, items \in FindItems : FindResponse(i, items)
    \/ Continue2
    \/ Back3

SpecManual == Init /\ [][NextManual]_vars

-----------------------------------------------------------------------------
(* Step 3, the amount due: StepThree mounted with a draft of each slot key *)

\* the slot keys StepThree is given: the keys of SLOT_RULES, the empty key, a missing
\* key and a key the table does not have (none of them names a member of Object.prototype)
PricedKeys == DOMAIN SLOT_RULES \cup {"", Undefined, "NOON"}

\* a draft completed by Steps 1 and 2 whose slot key is k
PricedDraft(k) ==
    [MergeNext(MergeNext(InitialFormData, onSubmit1(LookupContact)), onSubmit2(ManualForm))
        EXCEPT !.collectionTimeSlot = k]

InitPricing ==
    /\ currentStep = 3
    /\ isSubmitted = FALSE
    /\ \E k \in PricedKeys : formData = PricedDraft(k)
    /\ form1 = NoForm1
    /\ form2 = NoForm2
    /\ pcStatus = "null"
    /\ debounce = NoTimer
    /\ lookups = <<>>
    /\ form3 = Defaults3(formData)
    /\ submitting = FALSE
    /\ subs = [i \in 1..MaxAttempts |-> IdleSub]
    /\ attempts = 0
    /\ charges = 0
    /\ lastPrimary = "none"
    /\ notice = "none"
    /\ left = NothingLeft
    /\ applied = NothingApplied
    /\ lastFallback = "none"
    /\ ended = NothingEnded
    /\ window = NoWindow
    /\ passed = NothingPassed

NextPricing ==
    \/ \E v \in Samples3 : TypeStep3(v)
    \/ \E ready \in BOOLEAN : ClickSubmit(ready)
    \/ \E i \in 1..MaxAttempts, r \in IntentOutcomes : IntentResponse(i, r)
    \/ \E i \in 1..MaxAttempts, r \in ConfirmOutcomes : ConfirmResponse(i, r)
    \/ \E i \in 1..MaxAttempts, r \in PrimaryOutcomes : PrimaryResponse(i, r)
    \/ \E i \in 1..MaxAttempts, r \in FallbackOutcomes : FallbackResponse(i, r)

SpecPricing == InitPricing /\ [][NextPricing]_vars

-----------------------------------------------------------------------------
(* handleNext and the slot: the key and the label a step passes, one or both *)

\* what a step passes about the slot: only a label (of the label table, or the label
\* StepTwo shows for 6_9_AM, which the table does not have), only a key, both, neither
SlotData ==
    {[collectionTime |-> SLOT_LABEL_BY_KEY[k]] : k \in DOMAIN SLOT_LABEL_BY_KEY}
    \cup {[collectionTime |-> "06:00-09:00"]}
    \cup {[collectionTimeSlot |-> k] : k \in DOMAIN SLOT_LABEL_BY_KEY}
    \cup {[collectionTimeSlot |-> "6_9_AM", collectionTime |-> "06:00-09:00"],
          [contactName |-> "Jane Doe"]}

\* onNext of a step: handleNext with the data of the step
OnNext(data) ==
    /\ \E n \in 1..(totalSteps - 1) : StepRendered(n)
    /\ handleNext(data)

NextMerge ==
    \/ \E d \in SlotData : OnNext(d)
    \/ Back2
    \/ Back3

SpecMerge == Init /\ [][NextMerge]_vars

-----------------------------------------------------------------------------
(* Step 2 entered again: an address typed by hand is saved, then Back from Step 3 *)

\* the user types the address by hand, over what a lookup may have filled in, as long as
\* no Step 2 has been saved; afterwards the user only navigates
HandEdit == formData.postcode = "" /\ TypeStep2(ManualForm)

NextReentry ==
    \/ TypeStep1(LookupContact)
    \/ Continue1
    \/ HandEdit
    \/ TimerFire
    \/ \E i \in 1..MaxInFlight : LookupError(i)
    \/ \E i \in 1..MaxInFlight, items \in FindItems : FindResponse(i, items)
    \/ \E i \in 1..MaxInFlight, item \in GetItems : GetResponse(i, item)
    \/ Continue2
    \/ Back3

SpecReentry == Init /\ [][NextReentry]_vars

-----------------------------------------------------------------------------
(* Properties of the wizard *)

\* an attempt of StepThree.handleSubmit is running in slot i
Running(i) == subs[i].pc # "idle"
\* the booking of attempt i has been posted to the backend
Posted(i) == subs[i].pc \in {"primary", "fallback"}
\* the step of "Book Another Service"
IsReload == isSubmitted /\ ~isSubmitted'

\* C1: the current step is always 1, 2 or 3; a forward transition raises it by exactly
\* one and only happens when the validation of the step being left passes; Back lowers
\* it by exactly one; so no sequence of Next and Back skips a step or leaves 1..3.
C1_StepsAreLinear ==
    [][/\ currentStep \in 1..totalSteps
       /\ currentStep' \in 1..totalSteps
       /\ currentStep' > currentStep =>
            /\ currentStep' = currentStep + 1
            /\ currentStep = 1 => formSchema1(form1)
            /\ currentStep = 2 => formSchema2(form2)
       /\ (currentStep' < currentStep /\ ~IsReload) => currentStep' = currentStep - 1]_vars

\* both forward transitions and a Back have been taken: Step 2 after Back from Step 3
C1_Witness == currentStep = 2 /\ left.step = 3 /\ ~isSubmitted

\* C2: a lookup result (address fields, or a status ok / notfound / error) is applied
\* to the Step 2 form only if the postcode the lookup was started for is still the
\* postcode of the form when the response arrives.
C2_OnlyCurrentLookupApplied == applied # "superseded"

\* C3: when the readable response to the booking POST says ok = false, the error
\* reaches BookingForm.handleSubmit: the wizard is not Submitted and the failure is shown.
C3_ExplicitFailureSurfaced ==
    [][(/\ lastPrimary' = "ok_false"
        /\ \E i \in 1..MaxAttempts : subs[i].pc = "primary" /\ subs'[i].pc # "primary")
       => (~isSubmitted' /\ notice' = "error")]_vars

\* C4: after a card payment has succeeded, the payload posted to the backend carries
\* payment status "Paid" and the payment-intent identifier.
C4_PaidBookingCarriesPayment ==
    \A i \in 1..MaxAttempts :
        (Posted(i) /\ subs[i].method = "card" /\ subs[i].confirmed = "succeeded") =>
            /\ Get(subs[i].payload, "paymentStatus") = "Paid"
            /\ Get(subs[i].payload, "paymentIntentId") = subs[i].intentId

\* C5: with payment method card the booking is posted only after confirmCardPayment
\* returned status "succeeded"; when the payment-intent request fails, the processor
\* reports an error or the status is anything else, nothing is posted, the wizard stays
\* on Step 3, not Submitted, with the form as it was, and the submit button works again.
C5_CardPostOnlyAfterSucceeded ==
    [][/\ \A i \in 1..MaxAttempts :
            (subs'[i].pc \in {"primary", "fallback"} /\ subs'[i].method = "card") =>
                subs'[i].confirmed = "succeeded"
       /\ (\/ \E i \in 1..MaxAttempts :
                subs[i].pc \in {"intent", "confirm"} /\ subs'[i].pc = "idle"
           \/ /\ attempts' > attempts /\ form3.paymentMethod = "card"
              /\ \A i \in 1..MaxAttempts : subs'[i].pc = "idle")
          => /\ \A j \in 1..MaxAttempts : subs'[j].pc \notin {"primary", "fallback"}
             /\ currentStep' = 3 /\ ~isSubmitted'
             /\ formData' = formData /\ form3' = form3
             /\ notice' = "alert"
             /\ SubmitEnabled']_vars

\* a card booking is being posted after an earlier attempt ended with the alert
C5_Witness ==
    /\ notice = "alert"
    /\ \E i \in 1..MaxAttempts :
            subs[i].pc = "primary" /\ subs[i].method = "card" /\ subs[i].confirmed = "succeeded"

\* C6: while a submission started from Step 3 is outstanding (submitting = true) no
\* second one can be started: at most one attempt is in progress at any time.
C6_OneSubmissionAtATime ==
    /\ Cardinality({i \in 1..MaxAttempts : Running(i)}) <= 1
    /\ submitting <=> \E i \in 1..MaxAttempts : Running(i)
    /\ submitting => ~SubmitEnabled

\* a second attempt is outstanding, in the fallback request, after the first has ended
C6_Witness == submitting /\ attempts = 2 /\ subs[2].pc = "fallback"

\* C7: after every merge by handleNext the slot key and the slot label of the draft
\* agree with the pricing table: when the key is a key of the table, the label is the
\* label of that key.
C7_SlotKeyAndLabelAgree ==
    formData.collectionTimeSlot \in DOMAIN SLOT_LABEL_BY_KEY =>
        formData.collectionTime = SLOT_LABEL_BY_KEY[formData.collectionTimeSlot]

\* C8: once Submitted the session stays Submitted: no step is on screen, so no Next,
\* Back or Submit is available, nothing is outstanding, and neither the draft nor the
\* step changes; only the reload starts again from the empty draft at Step 1.
C8_SubmittedIsTerminal ==
    [][isSubmitted =>
        /\ \A n \in 1..totalSteps : ~StepRendered(n)
        /\ ~submitting /\ \A i \in 1..MaxAttempts : ~Running(i)
        /\ \/ isSubmitted' /\ formData' = formData /\ currentStep' = currentStep
           \/ ~isSubmitted' /\ formData' = InitialFormData /\ currentStep' = 1]_vars

\* a booking has been submitted at the second attempt
C8_Witness == isSubmitted /\ attempts = 2 /\ formData.contactName # ""

\* C9: Back from Step 2 or Step 3 moves exactly one step backward and does not discard
\* what was entered on the step being left: on the return to that step the values the
\* user had entered there are present.
C9_BackKeepsEnteredValues ==
    [][/\ (currentStep' < currentStep /\ ~IsReload) => currentStep' = currentStep - 1
       /\ (left.step = 2 /\ currentStep' = 2 /\ currentStep # 2) => form2' = left.form
       /\ (left.step = 3 /\ currentStep' = 3 /\ currentStep # 3) => form3' = left.form]_vars

\* C10: a forward transition merges the payload of the step into the draft without
\* destroying anything: every draft field the payload does not supply (the key is
\* absent, or its value is undefined) keeps the value it had before the merge; an
\* empty text and an undefined one both count as "no value".
C10_MergeKeepsOmittedFields ==
    [][currentStep' = currentStep + 1 =>
        LET data == IF currentStep = 1 THEN onSubmit1(form1) ELSE onSubmit2(form2)
            undefinable == {"collectionContactName", "collectionPhoneNumber", "companyName"}
        IN  \A k \in DOMAIN formData :
                IF k \in undefinable
                THEN (k \notin DOMAIN data \/ data[k] = Undefined) =>
                        OrElse(formData'[k], "") = OrElse(formData[k], "")
                ELSE k \notin DOMAIN data => formData'[k] = formData[k]]_vars

\* the outcomes of the primary fetch with which the try block throws
PrimaryThrows == {"network_error", "opaque", "http_error"}

\* C11: when the primary exchange throws, the same payload is re-issued once as a
\* no-cors request whose response is not read; once that request is sent the
\* submission is reported as success whatever the backend did with it, and the wizard
\* is Submitted.
C11_FallbackReportsSuccess ==
    [][\A i \in 1..MaxAttempts :
        /\ (subs[i].pc = "primary" /\ subs'[i].pc # "primary" /\ lastPrimary' \in PrimaryThrows)
            => /\ subs'[i].pc = "fallback"
               /\ subs'[i].payload = subs[i].payload
               /\ ~isSubmitted'
        /\ (subs[i].pc = "fallback" /\ subs'[i].pc # "fallback"
                /\ lastFallback' \in {"stored", "rejected"})
            => /\ isSubmitted' /\ notice' = "success"
               /\ \A j \in 1..MaxAttempts : subs'[j].pc = "idle"]_vars

\* Submitted after the primary exchange threw and the backend rejected the fallback
C11_Witness == isSubmitted /\ lastPrimary \in PrimaryThrows /\ lastFallback = "rejected"

\* C12: when the primary exchange throws and the fallback request cannot be issued
\* either, the user gets the retry prompt, the wizard stays on Step 3 and is not
\* Submitted, and the draft holds all merged data: submitting again posts the same
\* booking.
C12_FailedFallbackKeepsDraft ==
    [][\A i \in 1..MaxAttempts :
        (subs[i].pc = "fallback" /\ subs'[i].pc # "fallback" /\ lastFallback' = "network_error")
            => /\ notice' = "error"
               /\ currentStep' = 3 /\ ~isSubmitted'
               /\ formData' = formData /\ form3' = form3
               /\ Spread(formData', Normalized(form3', subs[i].intentId)) = formData'
               /\ PayloadOf(formData') = subs[i].payload
               /\ SubmitEnabled']_vars

\* the booking is being posted again after an attempt whose fallback could not be issued
C12_Witness ==
    /\ lastFallback = "network_error" /\ notice = "error"
    /\ \E i \in 1..MaxAttempts : subs[i].pc = "primary" /\ attempts = 2

\* the find-call answered with at least one candidate typed as a concrete address
HasAddress(items) == \E k \in 1..Len(items) : IsAddressItem(items[k])
\* the identifier of the first candidate typed as a concrete address
FirstTypedAddress(items) ==
    ItemId(items[CHOOSE k \in 1..Len(items) :
                    IsAddressItem(items[k]) /\ \A j \in 1..(k - 1) : ~IsAddressItem(items[j])])
\* the lookups of the debounced effect that are outstanding
Cascades == {lookups[i] : i \in {j \in 1..Len(lookups) : lookups[j].kind = "debounce"}}

\* C13: the cascade makes at most three find-calls; when a level answers with zero
\* candidates, or three levels produced no candidate typed as a concrete address, it
\* ends with "not found" and without a get-call.
C13_CascadeIsBounded ==
    /\ \A l \in Cascades :
        /\ l.finds \in 1..3
        /\ Len(l.seen) = (IF l.stage = "find" THEN l.finds - 1 ELSE l.finds)
        /\ \A j \in 1..Len(l.seen) : Len(l.seen[j]) > 0
        /\ Len(l.seen) = 3 => HasAddress(l.seen[3])
    /\ ended.kind = "debounce" =>
        /\ Len(ended.seen) <= 3
        /\ ended.gets <= 1
        /\ (/\ ended.status # "error"
            /\ \/ \E j \in 1..Len(ended.seen) : Len(ended.seen[j]) = 0
               \/ Len(ended.seen) = 3 /\ \A j \in 1..3 : ~HasAddress(ended.seen[j]))
           => (ended.status = "notfound" /\ ended.gets = 0)

\* three levels answered with containers only, and the lookup ended "not found"
C13_Witness ==
    /\ ended.kind = "debounce" /\ ended.status = "notfound" /\ ended.gets = 0
    /\ Len(ended.seen) = 3 /\ \A j \in 1..3 : Len(ended.seen[j]) > 0

\* C14: the cascade stops narrowing at the first level whose answer holds a candidate
\* typed as a concrete address and selects the first such candidate: the get-call is
\* made for that candidate after exactly as many find-calls as levels were answered
\* (three for container, container, address; one for an address at once) and it is the
\* only get-call.
C14_FirstAddressLevelWins ==
    /\ \A l \in Cascades :
        /\ l.stage = "find" => \A j \in 1..Len(l.seen) : ~HasAddress(l.seen[j])
        /\ l.stage = "get" =>
            /\ l.finds = Len(l.seen) /\ l.finds \in 1..3
            /\ HasAddress(l.seen[l.finds])
            /\ \A j \in 1..(l.finds - 1) : ~HasAddress(l.seen[j])
            /\ l.arg = FirstTypedAddress(l.seen[l.finds])
    /\ (ended.kind = "debounce" /\ ended.status = "ok") =>
        /\ ended.gets = 1
        /\ Len(ended.seen) \in 1..3
        /\ HasAddress(ended.seen[Len(ended.seen)])
        /\ \A j \in 1..(Len(ended.seen) - 1) : ~HasAddress(ended.seen[j])

\* container, container, then an address after the container: three find-calls and one
\* get-call filled the form
C14_Witness ==
    /\ ended.kind = "debounce" /\ ended.status = "ok" /\ ended.gets = 1
    /\ ended.seen = <<OnlyContainer, OnlyContainer, ContainerThenAddress>>

\* C15: a postcode edit before the delay has elapsed replaces the pending timer: the
\* pending timer is always the one of the current postcode, and after a burst of edits
\* the callback runs once, for the final value.
C15_OneLookupPerBurst ==
    [][/\ debounce # NoTimer => (debounce = CurrentPostcode /\ window.fired = 0)
       /\ debounce' # NoTimer => (debounce' = CurrentPostcode' /\ window'.fired = 0)
       /\ window'.fired <= 1
       /\ window'.fired > window.fired =>
            /\ debounce = CurrentPostcode /\ debounce' = NoTimer
            /\ form2' = form2
            /\ Len(lookups') > Len(lookups) =>
                /\ Len(lookups') = Len(lookups) + 1
                /\ lookups'[Len(lookups')].pc = CurrentPostcode
                /\ lookups'[Len(lookups')].kind = "debounce"]_vars

\* two edits inside one window, then one lookup, for the final postcode
C15_Witness ==
    /\ window.edits >= 2 /\ window.fired = 1 /\ debounce = NoTimer
    /\ CurrentPostcode = "SW1A 1AA"
    /\ Len(lookups) = 1 /\ lookups[1].kind = "debounce" /\ lookups[1].pc = "SW1A 1AA"

\* C16: a lookup that ends "not found" or "error" leaves the form as the user typed it
\* and does not block the booking: with a valid address typed by hand Continue is
\* available and takes that address to Step 3.
C16_FailedLookupDoesNotBlock ==
    /\ []((StepRendered(2) /\ pcStatus \in {"notfound", "error"} /\ formSchema2(form2))
            => ENABLED Continue2)
    /\ [][/\ (pcStatus' \in {"notfound", "error"} /\ pcStatus' # pcStatus) => form2' = form2
          /\ (pcStatus \in {"notfound", "error"} /\ currentStep = 2 /\ currentStep' # 2)
                => /\ currentStep' = 3
                   /\ formData'.postcode = form2.postcode
                   /\ formData'.addressLine1 = form2.addressLine1
                   /\ formData'.town = form2.town]_vars

\* Step 3 reached with the address typed by hand after the lookup found nothing or failed
C16_Witness ==
    /\ currentStep = 3 /\ formData.addressLine1 = "2 Mill Lane" /\ formData.town = "York"
    /\ ended.status \in {"notfound", "error"}

\* C17: Step 2 advances to Step 3 with same-contact off only when the alternate
\* contact name has at least 2 characters and the alternate phone is valid, with at
\* least 10 digits; with same-contact on the two fields are not required.
C17_AlternateContactRequired ==
    [][(currentStep = 2 /\ currentStep' = 3) =>
        /\ ~form2.sameContact =>
            /\ Len(form2.collectionContactName) >= 2
            /\ Len(OnlyDigits(form2.collectionPhoneNumber)) >= 10
        /\ (form2.sameContact /\ formSchema2([form2 EXCEPT !.sameContact = TRUE])) =>
                ENABLED Continue2]_vars

OptionalStrings == {"companyName", "specialInstructions", "addressLine2", "county"}
\* C18: in every payload posted to the backend, an optional text field that is blank in
\* the draft (company name, special instructions, address line 2, county) is absent from
\* the payload, not present as an empty string.
C18_BlankOptionalsAbsent ==
    \A i \in 1..MaxAttempts :
        Posted(i) =>
            \A k \in OptionalStrings :
                Get(formData, k) \in {"", Undefined} => k \notin DOMAIN subs[i].payload

ArrayKeys == {"notificationMethods", "wasteTypes", "wasteTypesSelected"}
AmountDue(k) ==
    IF k = "AFTER_9PM" THEN SLOT_RULES["AFTER_9PM"].min
    ELSE IF k \in DOMAIN SLOT_RULES THEN SLOT_RULES[k].surcharge
    ELSE 0
SlotFields(data) == DOMAIN data \cap {"collectionTime", "collectionTimeSlot"}
\* C21: the mapping from slot key to label is a bijection: for every entry of the table,
\* the reverse lookup of the label of a key gives that key back; a draft without a key
\* that is given only the label of a key holds that key afterwards.
C21_KeyLabelRoundTrip ==
    [][/\ \A k \in DOMAIN SLOT_LABEL_BY_KEY : KeyOfLabel(SLOT_LABEL_BY_KEY[k]) = k
       /\ \A j, k \in DOMAIN SLOT_LABEL_BY_KEY :
            SLOT_LABEL_BY_KEY[j] = SLOT_LABEL_BY_KEY[k] => j = k
       /\ \A k \in DOMAIN SLOT_LABEL_BY_KEY :
            (/\ currentStep' = currentStep + 1
             /\ formData.collectionTimeSlot = ""
             /\ SlotFields(passed') = {"collectionTime"}
             /\ passed'.collectionTime = SLOT_LABEL_BY_KEY[k])
            => formData'.collectionTimeSlot = k]_vars
C21_Witness ==
    /\ SlotFields(passed) = {"collectionTime"}
    /\ passed.collectionTime = SLOT_LABEL_BY_KEY["6_9_PM"]
    /\ formData.collectionTimeSlot = "6_9_PM"

\* C22: when the data handleNext merges has only a slot label, the key of the draft
\* becomes the key of that label in the label table, or is unset when no entry has the
\* label, whatever key the draft held; when it has only a key, the label of the draft
\* becomes the table label of that key.
C22_MergeDerivesMissingSlotField ==
    [][currentStep' = currentStep + 1 =>
        /\ SlotFields(passed') = {"collectionTime"} =>
            IF \E k \in DOMAIN SLOT_LABEL_BY_KEY : SLOT_LABEL_BY_KEY[k] = passed'.collectionTime
            THEN SLOT_LABEL_BY_KEY[formData'.collectionTimeSlot] = passed'.collectionTime
            ELSE formData'.collectionTimeSlot \in {"", Undefined}
        /\ SlotFields(passed') = {"collectionTimeSlot"} =>
            formData'.collectionTime = SLOT_LABEL_BY_KEY[passed'.collectionTimeSlot]]_vars

\* C23: on every successful lookup address line 1, town, county and postcode of the
\* Step 2 form take the values of the resolved record, address line 2 takes the record's
\* value only when it was not populated, and the lookup status becomes "ok".
C23_LookupOverwritesAddress ==
    [][\A i \in 1..MaxInFlight, item \in GetItems :
        GetResponse(i, item) =>
            LET addr == mapLoqateToUi(item)
            IN  /\ form2'.addressLine1 = addr.line1
                /\ form2'.town = addr.town
                /\ form2'.county = addr.county
                /\ form2'.postcode = addr.postcode
                /\ form2'.addressLine2 =
                        IF form2.addressLine2 = "" THEN addr.line2 ELSE form2.addressLine2
                /\ pcStatus' = "ok"]_vars

\* C24: the blur lookup is skipped when a lookup of the current postcode already reached
\* "ok" or "notfound", and a blur never starts a lookup while a debounce timer or a
\* lookup in flight exists for the same postcode value.
C24_BlurStartsNoSecondLookup ==
    [][(/\ Len(lookups') = Len(lookups) + 1
        /\ lookups'[Len(lookups')].kind = "blur")
       => /\ pcStatus \notin {"ok", "notfound"}
          /\ debounce # CurrentPostcode
          /\ \A i \in 1..Len(lookups) : lookups[i].pc # CurrentPostcode]_vars

\* the tokens the backend expects
ApiTokens == {"Email", "SMS", "WhatsApp"}
\* C25: every notification method of a posted payload is one of Email, SMS, WhatsApp: the
\* identifiers of the UI are translated before sending, also when Step 3 is entered
\* again after Back or submits again after a failed submission left translated values
\* in the draft.
C25_NotificationTokensTranslated ==
    \A i \in 1..MaxAttempts :
        Posted(i) =>
            \A j \in 1..Len(subs[i].payload.notificationMethods) :
                subs[i].payload.notificationMethods[j] \in ApiTokens
\* a second submission is posted after the first one failed and left its translated
\* values in the draft
C25_Witness ==
    /\ Posted(2)
    /\ lastFallback = "network_error"
    /\ subs[2].payload.notificationMethods = <<"WhatsApp", "SMS">>

\* the outcomes of the primary fetch in which the client read an answer of the backend
PrimaryAnswered == {"http_error", "ok_false", "ok_true", "non_json"}
\* C26: one submit attempt delivers the payload at most once: the fallback POST is never
\* issued after the backend received and answered the primary POST, be it with a
\* non-2xx status or with an ok:false body.
C26_NoFallbackAfterAnswer ==
    [][\A i \in 1..MaxAttempts :
        (subs[i].pc = "primary" /\ subs'[i].pc = "fallback") =>
            lastPrimary' \notin PrimaryAnswered]_vars

\* the draft records a card payment of this session (the draft is emptied by the reload)
DraftPaid == Get(formData, "paymentIntentId") # Undefined
\* C27: within one booking session a card is charged at most once: no sequence of submit
\* attempts, a booking post that fails after the charge succeeded and a retry included,
\* confirms a second card payment.
C27_OneChargePerSession ==
    [][charges' > charges => ~DraftPaid]_vars

\* C28: addressget is only ever called with the identifier of a candidate typed as a
\* concrete address, on the debounced cascade and on the blur lookup alike; never with
\* the identifier of a container and never with an undefined identifier.
C28_GetOnlyForAddressCandidate ==
    [][\A i \in 1..Len(lookups) :
        (/\ Len(lookups') = Len(lookups)
         /\ lookups[i].stage = "find"
         /\ lookups'[i].stage = "get")
        => LET items == lookups'[i].seen[Len(lookups'[i].seen)]
           IN  /\ lookups'[i].arg # Undefined
               /\ \E j \in 1..Len(items) :
                    IsAddressItem(items[j]) /\ ItemId(items[j]) = lookups'[i].arg]_vars

\* C29: applying the result of a successful lookup to the form, the provider's postcode
\* written into the postcode field included, never schedules another lookup: only an
\* edit of the user (or a blur) starts one, so after status "ok" nothing is pending.
C29_ApplyingResultSchedulesNothing ==
    [][(Len(lookups') < Len(lookups) /\ pcStatus' = "ok") => debounce' = debounce]_vars

\* C30: address fields the user edited by hand after a lookup and saved with Continue
\* are not overwritten without a new edit of the postcode: when Step 2 is entered again
\* by Back from Step 3, address line 1, town and county stay as saved in the draft.
C30_SavedAddressSurvivesReentry ==
    (/\ StepRendered(2)
     /\ formData.postcode = ManualForm.postcode
     /\ formData.addressLine1 = ManualForm.addressLine1)
    => /\ form2.addressLine1 = formData.addressLine1
       /\ form2.town = formData.town
       /\ form2.county = formData.county

====
